---- MODULE Spec2Model ----
(***************************************************************************)
(* A model of ncon_torch/ncon.py: the contraction of a tensor network.     *)
(*                                                                         *)
(* Conventions of the model.                                               *)
(*  - Python lists are sequences; Python's 0-based positions p are the     *)
(*    model's positions p + 1 (tensor numbers in tcon, axis numbers in     *)
(*    pos1, pos2 and perm).                                                *)
(*  - An index label is a number.  The labels of NonIntLabels stand for    *)
(*    labels that are not Python ints (strings); IsInt tells them apart.   *)
(*  - A tensor is [axes, parts, summed]: axes is the sequence of its axes, *)
(*    each [size, org] with org = <<i, j>> the axis j of input tensor i    *)
(*    the axis descends from (a trivial axis added by connect_graph to     *)
(*    tensor i at position j is <<i, j>> as well); parts is the set of     *)
(*    input tensors merged into it; summed is the set of axis pairs        *)
(*    {org, org} summed over so far.  parts and summed are what the        *)
(*    numeric value of the tensor is a function of.                        *)
(*  - check_indices has its default value True.                            *)
(***************************************************************************)
EXTENDS Integers, Sequences, FiniteSets, TLC

VARIABLES
    inp,      \* the arguments of the call: [L, v, order, forder, hasOrder, hasForder]
    L,        \* the list of tensors
    v,        \* the list of leg lists
    order,    \* the contraction order
    forder,   \* the final order of the free indices
    pc,       \* the position in ncon
    err,      \* the exception raised, "" if none
    calls,    \* the number of backend operations invoked so far
    result,   \* the tensor ncon returns
    step,     \* the last loop iteration's tcon, icon, pos1, pos2
    iters,    \* the number of loop iterations completed or raised
    net,      \* the leg lists and the order as connect_graph left them
    run,      \* 1 in the first call, 2 in the repeated call
    links,    \* the tensors c, d1, d2, ... connect_graph picked
    out1      \* the outcome of the first call

vars == <<inp, L, v, order, forder, pc, err, calls, result, step, iters, net, run, links, out1>>

-----------------------------------------------------------------------------
(* Bounds of the model and the sets the inputs are drawn from.             *)

MaxTensors == 3
MaxSize == 7
SmallTensors == 2
SmallSize == 5
SmallOrder == 2
ReplayTensors == 3
ReplaySize == 8
BroadTensors == 2
BroadSize == 5
BroadOrder == 2

IntLabels == {-1, 1, 2}
NonIntLabels == {100}
SmallLabels == {-2, -1, 1, 2} \cup NonIntLabels
Sizes == {1, 2}

-----------------------------------------------------------------------------
(* Sequences and sets.                                                     *)

Range(s) == {s[i] : i \in DOMAIN s}

RECURSIVE Flat(_)
Flat(vv) == IF vv = <<>> THEN <<>> ELSE Head(vv) \o Flat(Tail(vv))

Count(x, s) == Cardinality({i \in DOMAIN s : s[i] = x})

RECURSIVE SortAsc(_)
SortAsc(S) ==
    IF S = {} THEN <<>>
    ELSE LET m == CHOOSE x \in S : \A y \in S : x <= y
         IN <<m>> \o SortAsc(S \ {m})

RECURSIVE SortDesc(_)
SortDesc(S) ==
    IF S = {} THEN <<>>
    ELSE LET m == CHOOSE x \in S : \A y \in S : x >= y
         IN <<m>> \o SortDesc(S \ {m})

Perms(S) == {s \in [1..Cardinality(S) -> S] : Range(s) = S}

Positions(s, x) == SortAsc({i \in DOMAIN s : s[i] = x})

RECURSIVE ConcatPositions(_, _)
ConcatPositions(s, icon) ==
    IF icon = <<>> THEN <<>>
    ELSE Positions(s, Head(icon)) \o ConcatPositions(s, Tail(icon))

RemoveAt(s, P) == LET keep == SortAsc(DOMAIN s \ P) IN [k \in DOMAIN keep |-> s[keep[k]]]

DeleteAt(s, i) == RemoveAt(s, {i})

Without(s, icon) == SelectSeq(s, LAMBDA x : x \notin Range(icon))

IsInt(x) == x \notin NonIntLabels

-----------------------------------------------------------------------------
(* The backend: con, trace, permute, expand_dims.                          *)

Rank(A) == Len(A.axes)

NoTensor == [axes |-> <<>>, parts |-> {}, summed |-> {}]

con_ok(A, B, pos1, pos2) ==
    /\ Len(pos1) = Len(pos2)
    /\ Cardinality(Range(pos1)) = Len(pos1)
    /\ Cardinality(Range(pos2)) = Len(pos2)
    /\ Range(pos1) \subseteq DOMAIN A.axes
    /\ Range(pos2) \subseteq DOMAIN B.axes
    /\ \A k \in DOMAIN pos1 : A.axes[pos1[k]].size = B.axes[pos2[k]].size

con(A, B, pos1, pos2) ==
    [axes |-> RemoveAt(A.axes, Range(pos1)) \o RemoveAt(B.axes, Range(pos2)),
     parts |-> A.parts \cup B.parts,
     summed |-> A.summed \cup B.summed
                \cup {{A.axes[pos1[k]].org, B.axes[pos2[k]].org} : k \in DOMAIN pos1}]

trace_ok(A, axis1, axis2) ==
    /\ axis1 # axis2
    /\ {axis1, axis2} \subseteq DOMAIN A.axes
    /\ A.axes[axis1].size = A.axes[axis2].size

trace(A, axis1, axis2) ==
    [axes |-> RemoveAt(A.axes, {axis1, axis2}),
     parts |-> A.parts,
     summed |-> A.summed \cup {{A.axes[axis1].org, A.axes[axis2].org}}]

permute_ok(A, perm) ==
    /\ Len(perm) = Rank(A)
    /\ Range(perm) = DOMAIN A.axes

permute(A, perm) ==
    [axes |-> [k \in DOMAIN perm |-> A.axes[perm[k]]],
     parts |-> A.parts,
     summed |-> A.summed]

expand_dims(A, axis, i) ==
    [axes |-> Append(A.axes, [size |-> 1, org |-> <<i, axis>>]),
     parts |-> A.parts,
     summed |-> A.summed]

-----------------------------------------------------------------------------
(* preprocess_forder_order and its helpers.                                *)

indices_are_ints(vv) == \A x \in Range(Flat(vv)) : IsInt(x)

create_order(vv) == SortAsc({x \in Range(Flat(vv)) : x > 0})

(* A create_forder that sorts upwards, -3, -2, -1.                         *)
create_forder_ascending(vv) == SortAsc({x \in Range(Flat(vv)) : x < 0})

create_forder(vv) == SortDesc({x \in Range(Flat(vv)) : x < 0})

-----------------------------------------------------------------------------
(* do_check_indices.  The value is the exception raised, "" when the check *)
(* passes.  The messages of checks 3) and 4) format the offending label    *)
(* with %i, which raises TypeError when the label is not a number.         *)

VPairs(vv) == Flat([i \in DOMAIN vv |-> [j \in DOMAIN vv[i] |-> <<i, j>>]])

Group(vv, e) == SelectSeq(VPairs(vv), LAMBDA t : vv[t[1]][t[2]] = e)

Format(label, msg) == IF IsInt(label) THEN msg ELSE "TypeError: %i format"

OrderFault(LL, vv, ord, i) ==
    LET o == Group(vv, ord[i])
    IN IF Len(o) # 2
       THEN Format(ord[i], "ValueError: not featured exactly twice")
       ELSE IF LL[o[1][1]].axes[o[1][2]].size # LL[o[2][1]].axes[o[2][2]].size
            THEN Format(ord[i], "ValueError: not compatible")
            ELSE ""

ForderFault(vv, ford, i) ==
    IF Count(ford[i], Flat(vv)) # 1
    THEN Format(ford[i], "ValueError: not featured exactly once")
    ELSE ""

do_check_indices(LL, vv, ord, ford) ==
    IF Len(LL) # Len(vv)
    THEN "ValueError: number of tensors"
    ELSE IF \E i \in DOMAIN vv : Len(vv[i]) # Rank(LL[i])
    THEN "ValueError: number of indices"
    ELSE LET badO == {i \in DOMAIN ord : OrderFault(LL, vv, ord, i) # ""}
             badF == {i \in DOMAIN ford : ForderFault(vv, ford, i) # ""}
         IN IF badO # {}
            THEN OrderFault(LL, vv, ord, CHOOSE i \in badO : \A j \in badO : i <= j)
            ELSE IF badF # {}
            THEN ForderFault(vv, ford, CHOOSE i \in badF : \A j \in badF : i <= j)
            ELSE ""

-----------------------------------------------------------------------------
(* connect_graph.                                                          *)

Neighbours(vv, i) == {j \in DOMAIN vv : Range(vv[i]) \cap Range(vv[j]) # {}}

RECURSIVE Visit(_, _, _, _)
Visit(vv, to_visit, visited, component) ==
    IF to_visit = {} THEN component
    ELSE LET i == CHOOSE x \in to_visit : TRUE
             seen == visited \cup {i}
         IN Visit(vv, (to_visit \ {i}) \cup (Neighbours(vv, i) \ seen), seen,
                  component \cup {i})

RECURSIVE CComponents(_, _, _)
CComponents(vv, unvisited, visited) ==
    IF unvisited = {} THEN {}
    ELSE LET next_visit == CHOOSE x \in unvisited : TRUE
             component == Visit(vv, {next_visit}, visited, {})
         IN {component} \cup CComponents(vv, unvisited \ component, visited \cup component)

(* The components are popped in the order the traversal found them and one *)
(* tensor is popped from each: sets iterate in no specified order, so any  *)
(* order of the components and any tensor of each is possible.             *)
LinkChoices(comps) ==
    UNION {{s \in [1..Cardinality(comps) -> UNION comps] : \A k \in DOMAIN s : s[k] \in p[k]}
           : p \in Perms(comps)}

DimNum(ord) ==
    CHOOSE n \in 1..(Len(ord) + 1) : n \notin Range(ord) /\ \A m \in 1..(n - 1) : m \in Range(ord)

(* A ConnectPair that puts the synthetic label in front of order.          *)
ConnectPair_prepends(st, c, d) ==
    LET c_axis == Len(st.v[c]) + 1
        d_axis == Len(st.v[d]) + 1
        dim_num == DimNum(st.order)
    IN [L |-> [st.L EXCEPT ![c] = expand_dims(st.L[c], c_axis, c),
                           ![d] = expand_dims(st.L[d], d_axis, d)],
        v |-> [st.v EXCEPT ![c] = Append(st.v[c], dim_num),
                           ![d] = Append(st.v[d], dim_num)],
        order |-> <<dim_num>> \o st.order]

ConnectPair(st, c, d) ==
    LET c_axis == Len(st.v[c]) + 1
        d_axis == Len(st.v[d]) + 1
        dim_num == DimNum(st.order)
    IN [L |-> [st.L EXCEPT ![c] = expand_dims(st.L[c], c_axis, c),
                           ![d] = expand_dims(st.L[d], d_axis, d)],
        v |-> [st.v EXCEPT ![c] = Append(st.v[c], dim_num),
                           ![d] = Append(st.v[d], dim_num)],
        order |-> Append(st.order, dim_num)]

RECURSIVE ConnectAll(_, _, _)
ConnectAll(st, c, ds) ==
    IF ds = <<>> THEN st
    ELSE ConnectAll(ConnectPair(st, c, Head(ds)), c, Tail(ds))

connect_graph(LL, vv, ord, ch) ==
    ConnectAll([L |-> LL, v |-> vv, order |-> ord], Head(ch), Tail(ch))

-----------------------------------------------------------------------------
(* The helpers of the contraction loop.                                    *)

get_tcon(vv, index) ==
    LET tcon == SortAsc({i \in DOMAIN vv : index \in Range(vv[i])})
    IN IF Len(tcon) > 2
       THEN [err |-> "ValueError: more than two tensors", tcon |-> tcon]
       ELSE IF Len(tcon) < 1
       THEN [err |-> "ValueError: less than one tensor", tcon |-> tcon]
       ELSE IF Len(tcon) = 1 /\ Count(index, vv[tcon[1]]) # 2
       THEN [err |-> "ValueError: trace index", tcon |-> tcon]
       ELSE [err |-> "", tcon |-> tcon]

(* list(set(inds1).intersection(inds2)): the list is in no specified order *)
get_icon(vv, tcon) == Perms(Range(vv[tcon[1]]) \cap Range(vv[tcon[2]]))

get_pos(vv, tcon, icon) ==
    [pos1 |-> ConcatPositions(vv[tcon[1]], icon),
     pos2 |-> IF Len(tcon) < 2 THEN <<>> ELSE ConcatPositions(vv[tcon[2]], icon)]

(* A find_newv that keeps the contracted labels, and one that lists the    *)
(* higher-positioned participant's labels first.                           *)
find_newv_keeps_icon(vv, tcon, icon) ==
    IF Len(tcon) = 2 THEN vv[tcon[1]] \o vv[tcon[2]] ELSE vv[tcon[1]]

find_newv_swapped(vv, tcon, icon) ==
    LET newv == IF Len(tcon) = 2 THEN vv[tcon[2]] \o vv[tcon[1]] ELSE vv[tcon[1]]
    IN Without(newv, icon)

find_newv(vv, tcon, icon) ==
    LET newv == IF Len(tcon) = 2 THEN vv[tcon[1]] \o vv[tcon[2]] ELSE vv[tcon[1]]
    IN Without(newv, icon)

(* A renew_order that drops only the index the iteration started from.     *)
renew_order_first_only(ord, icon) == Tail(ord)

renew_order(ord, icon) == Without(ord, icon)

DeleteAll(s, tcon) == RemoveAt(s, Range(tcon))

permute_perm(vlast, ford) ==
    [k \in DOMAIN ford |-> CHOOSE p \in DOMAIN vlast :
                              vlast[p] = ford[k] /\ \A q \in 1..(p - 1) : vlast[q] # ford[k]]

-----------------------------------------------------------------------------
(* The inputs.  InitValid starts from the networks of the data model:      *)
(* every label on one leg (free) or on two (contracted), order any         *)
(* arrangement of the contracted labels, forder any arrangement of the     *)
(* free ones, all axes of one size.  InitSmall starts from small networks  *)
(* over all labels, order and forder each given or omitted, order possibly *)
(* incomplete.  InitBroad starts from small networks in which one of       *)
(* order, forder and the tensors' shapes is arbitrary.                     *)

Tensor(i, shape) ==
    [axes |-> [j \in DOMAIN shape |-> [size |-> shape[j], org |-> <<i, j>>]],
     parts |-> {i},
     summed |-> {}]


Twice(vv) == {x \in Range(Flat(vv)) : Count(x, Flat(vv)) = 2}

Once(vv) == {x \in Range(Flat(vv)) : Count(x, Flat(vv)) = 1}

SeqsUpTo(S, n) == UNION {[1..k -> S] : k \in 0..n}

RECURSIVE NetsOf(_, _, _)
NetsOf(n, m, Lab) ==
    IF n = 0 THEN {<<>>}
    ELSE UNION {{Append(vv, l) : vv \in NetsOf(n - 1, m - k, Lab), l \in [1..k -> Lab]}
                : k \in 0..m}

Input(LL, vv, o, f, ho, hf) ==
    [L |-> LL, v |-> vv, order |-> o, forder |-> f, hasOrder |-> ho, hasForder |-> hf]

Shapes(vv, s) == [i \in DOMAIN vv |-> [j \in DOMAIN vv[i] |-> s]]

Build(sh) == [i \in DOMAIN sh |-> Tensor(i, sh[i])]

Uniform(vv, s) == Build(Shapes(vv, s))

ShapeVariants(vv) ==
    LET base == Shapes(vv, 2)
        legs == Range(VPairs(vv))
    IN {Build([base EXCEPT ![t[1]][t[2]] = 1]) : t \in legs}
       \cup {Build(SubSeq(base, 1, Len(base) - 1)), Build(Append(base, <<>>))}
       \cup {Build([base EXCEPT ![i] = Append(base[i], 2)]) : i \in DOMAIN vv}
       \cup {Build([base EXCEPT ![t[1]] = SubSeq(base[t[1]], 1, Len(base[t[1]]) - 1)]) : t \in legs}

NoStep == [tcon |-> <<>>, icon |-> <<>>, pos1 |-> <<>>, pos2 |-> <<>>]

NoOutcome == [pc |-> "", result |-> NoTensor]

NoNet == [v |-> <<>>, order |-> <<>>]

Start(i) ==
    /\ inp = i
    /\ L = i.L
    /\ v = i.v
    /\ order = i.order
    /\ forder = i.forder
    /\ pc = "start"
    /\ err = ""
    /\ calls = 0
    /\ result = NoTensor
    /\ step = NoStep
    /\ iters = 0
    /\ net = NoNet

IsValidNet(vv) == \A x \in Range(Flat(vv)) : Count(x, Flat(vv)) <= 2

InitValid(T, S) ==
    \E n \in 1..T : \E vv \in NetsOf(n, S - n, IntLabels) :
        /\ IsValidNet(vv)
        /\ \E s \in Sizes, o \in Perms(Twice(vv)), f \in Perms(Once(vv)) :
             Start(Input(Uniform(vv, s), vv, o, f, TRUE, TRUE))

InitSmall ==
    \E n \in 1..SmallTensors : \E vv \in NetsOf(n, SmallSize - n, SmallLabels) :
        \E ho \in BOOLEAN, hf \in BOOLEAN :
            \E o \in (IF ho THEN SeqsUpTo(Twice(vv), SmallOrder) ELSE {<<>>}) :
                Start(Input(Uniform(vv, 2), vv, o, IF hf THEN SortDesc(Once(vv)) ELSE <<>>, ho, hf))

InitBroad ==
    \E n \in 1..BroadTensors : \E vv \in NetsOf(n, BroadSize - n, SmallLabels) :
        \/ \E s \in Sizes, o \in SeqsUpTo(SmallLabels, BroadOrder) :
             Start(Input(Uniform(vv, s), vv, o, SortDesc(Once(vv)), TRUE, TRUE))
        \/ \E s \in Sizes, f \in SeqsUpTo(SmallLabels, BroadOrder) :
             Start(Input(Uniform(vv, s), vv, SortAsc(Twice(vv)), f, TRUE, TRUE))
        \/ \E LL \in ShapeVariants(vv) :
             Start(Input(LL, vv, SortAsc(Twice(vv)), SortDesc(Once(vv)), TRUE, TRUE))

-----------------------------------------------------------------------------
(* ncon.                                                                   *)

Init ==
    /\ InitValid(MaxTensors, MaxSize) \/ InitSmall
    /\ run = 1
    /\ links = <<>>
    /\ out1 = NoOutcome

InitReplay ==
    /\ InitValid(ReplayTensors, ReplaySize) \/ InitBroad
    /\ run = 1
    /\ links = <<>>
    /\ out1 = NoOutcome

Raise(e) ==
    /\ pc' = "error"
    /\ err' = e

preprocess_forder_order(has, arg, vv, name) ==
    IF ~has
    THEN IF ~indices_are_ints(vv)
         THEN [err |-> "ValueError: " \o name \o " must be specified", val |-> <<>>]
         ELSE [err |-> "", val |-> IF name = "order" THEN create_order(vv) ELSE create_forder(vv)]
    ELSE [err |-> "", val |-> arg]

Preprocess ==
    /\ pc = "start"
    /\ LET o == preprocess_forder_order(inp.hasOrder, inp.order, v, "order")
           f == preprocess_forder_order(inp.hasForder, inp.forder, v, "forder")
       IN IF o.err # ""
          THEN Raise(o.err) /\ UNCHANGED <<order, forder>>
          ELSE IF f.err # ""
          THEN Raise(f.err) /\ order' = o.val /\ UNCHANGED forder
          ELSE pc' = "check" /\ order' = o.val /\ forder' = f.val /\ UNCHANGED err
    /\ UNCHANGED <<inp, L, v, calls, result, step, iters, net, run, links, out1>>

Validate ==
    /\ pc = "check"
    /\ LET e == do_check_indices(L, v, order, forder)
       IN IF e # "" THEN Raise(e) ELSE pc' = "connect" /\ UNCHANGED err
    /\ UNCHANGED <<inp, L, v, order, forder, calls, result, step, iters, net, run, links, out1>>

Connect ==
    /\ pc = "connect"
    /\ \E ch \in (IF run = 1 THEN LinkChoices(CComponents(v, 1..Len(L), {})) ELSE {links}) :
         LET st == connect_graph(L, v, order, ch)
         IN /\ L' = st.L
            /\ v' = st.v
            /\ order' = st.order
            /\ net' = [v |-> st.v, order |-> st.order]
            /\ links' = ch
            /\ calls' = calls + 2 * (Len(ch) - 1)
    /\ pc' = "loop"
    /\ UNCHANGED <<inp, forder, err, result, step, iters, run, out1>>

Contract(tcon, icon) ==
    LET pos == get_pos(v, tcon, icon)
        tracing == Len(tcon) = 1
        ok == IF tracing
              THEN trace_ok(L[tcon[1]], pos.pos1[1], pos.pos1[2])
              ELSE con_ok(L[tcon[1]], L[tcon[2]], pos.pos1, pos.pos2)
        new_A == IF tracing
                 THEN trace(L[tcon[1]], pos.pos1[1], pos.pos1[2])
                 ELSE con(L[tcon[1]], L[tcon[2]], pos.pos1, pos.pos2)
    IN /\ step' = [tcon |-> tcon, icon |-> icon, pos1 |-> pos.pos1, pos2 |-> pos.pos2]
       /\ calls' = calls + 1
       /\ IF ok
          THEN /\ L' = DeleteAll(Append(L, new_A), tcon)
               /\ v' = DeleteAll(Append(v, find_newv(v, tcon, icon)), tcon)
               /\ order' = renew_order(order, icon)
               /\ UNCHANGED <<pc, err>>
          ELSE /\ Raise("BackendError")
               /\ UNCHANGED <<L, v, order>>

Iterate ==
    /\ pc = "loop"
    /\ Len(order) > 0
    /\ LET t == get_tcon(v, order[1])
       IN IF t.err # ""
          THEN Raise(t.err) /\ UNCHANGED <<L, v, order, calls, step>>
          ELSE \E icon \in (IF Len(t.tcon) = 1 THEN {<<order[1]>>} ELSE get_icon(v, t.tcon)) :
                  Contract(t.tcon, icon)
    /\ iters' = iters + 1
    /\ UNCHANGED <<inp, forder, result, net, run, links, out1>>

permute_final ==
    IF \E k \in DOMAIN forder : forder[k] \notin Range(v[1])
    THEN Raise("ValueError: not in list") /\ UNCHANGED <<calls, result>>
    ELSE LET perm == permute_perm(v[1], forder)
         IN /\ calls' = calls + 1
            /\ IF permute_ok(L[1], perm)
               THEN pc' = "done" /\ result' = permute(L[1], perm) /\ UNCHANGED err
               ELSE Raise("BackendError") /\ UNCHANGED result

Return ==
    /\ pc = "loop"
    /\ Len(order) = 0
    /\ permute_final
    /\ UNCHANGED <<inp, L, v, order, forder, step, iters, net, run, links, out1>>

(* A second call of ncon on the same network, the contracted indices given *)
(* in another order; connect_graph's set iteration repeats its picks.      *)
Reorders(o) == {[k \in DOMAIN o |-> o[f[k]]] : f \in Perms(DOMAIN o)} \ {o}

Rerun ==
    /\ pc \in {"done", "error"}
    /\ run = 1
    /\ inp.hasOrder
    /\ \E o \in Reorders(inp.order) :
         /\ inp' = [inp EXCEPT !.order = o]
         /\ L' = inp.L
         /\ v' = inp.v
         /\ order' = o
         /\ forder' = inp.forder
    /\ pc' = "start"
    /\ err' = ""
    /\ calls' = 0
    /\ result' = NoTensor
    /\ step' = NoStep
    /\ iters' = 0
    /\ net' = NoNet
    /\ run' = 2
    /\ out1' = [pc |-> pc, result |-> result]
    /\ UNCHANGED links

Next == Preprocess \/ Validate \/ Connect \/ Iterate \/ Return

Spec == Init /\ [][Next]_vars

NextReplay == Next \/ Rerun

SpecReplay == InitReplay /\ [][NextReplay]_vars

-----------------------------------------------------------------------------
(* Notions the properties are stated with.                                 *)

(* The input follows the data model: the tensors fit the leg lists, every  *)
(* label is on one leg or on two, the two ends of a label have one size,   *)
(* order arranges the labels on two legs, forder those on one.             *)
WellFormed(i) ==
    /\ i.hasOrder /\ i.hasForder
    /\ Len(i.L) = Len(i.v)
    /\ \A t \in DOMAIN i.v : Len(i.v[t]) = Len(i.L[t].axes)
    /\ \A x \in Range(Flat(i.v)) : Count(x, Flat(i.v)) <= 2
    /\ \A x \in Twice(i.v) : \A a, b \in Range(VPairs(i.v)) :
          (i.v[a[1]][a[2]] = x /\ i.v[b[1]][b[2]] = x)
              => i.L[a[1]].axes[a[2]].size = i.L[b[1]].axes[b[2]].size
    /\ Len(i.order) = Cardinality(Twice(i.v)) /\ Range(i.order) = Twice(i.v)
    /\ Len(i.forder) = Cardinality(Once(i.v)) /\ Range(i.forder) = Once(i.v)

LoopErrors ==
    {"BackendError", "ValueError: more than two tensors", "ValueError: less than one tensor",
     "ValueError: trace index"}

ConfigErrors == {"ValueError: order must be specified", "ValueError: forder must be specified"}

(* Two tensors are adjacent when their leg lists share a label.            *)
Adjacent(vv, i, j) == i # j /\ \E x \in Range(vv[i]) : x \in Range(vv[j])

Closed(vv, S, U) == \A i \in S, j \in U \ S : ~Adjacent(vv, i, j)

IsComponent(vv, S) ==
    /\ S # {}
    /\ Closed(vv, S, DOMAIN vv)
    /\ \A T \in SUBSET S : (T # {} /\ T # S) => ~Closed(vv, T, S)

NumComponents(vv) == Cardinality({S \in SUBSET DOMAIN vv : IsComponent(vv, S)})

IsSubseq(s, t) ==
    \E f \in [DOMAIN s -> DOMAIN t] :
        /\ \A a, b \in DOMAIN s : a < b => f[a] < f[b]
        /\ \A a \in DOMAIN s : s[a] = t[f[a]]

Suffix(s, n) == SubSeq(s, n + 1, Len(s))

(* The label connect_graph's network gives the axis an axis descends from. *)
LabelOf(org) == net.v[org[1]][org[2]]

IsInputAxis(org) == org[1] \in DOMAIN inp.v /\ org[2] \in DOMAIN inp.v[org[1]]

-----------------------------------------------------------------------------
(* C1: on every input that passes do_check_indices the contraction loop    *)
(* exits, without raising, with order empty and the network state holding  *)
(* exactly one tensor and one leg list.  Stated for the inputs that also   *)
(* follow the data model, on which it already fails.                       *)
C1_LoopEndsWithOneTensor ==
    WellFormed(inp) =>
        /\ ~(pc = "error" /\ Len(order) > 0 /\ err \in LoopErrors)
        /\ (pc = "loop" /\ Len(order) = 0) => (Len(L) = 1 /\ Len(v) = 1)

(* C10: every synthetic label connect_graph chooses is on no leg when it   *)
(* is chosen, so after the repair it is on exactly two legs, and the       *)
(* pairwise contraction over it gets axis lists of equal length.  Stated   *)
(* for the inputs that follow the data model.                              *)
Synthetic == Range(Suffix(net.order, Len(net.order) - (Len(links) - 1)))

C10_SyntheticLabelsFresh ==
    (WellFormed(inp) /\ pc \in {"loop", "done", "error"} /\ net # NoNet) =>
        /\ \A x \in Synthetic : Count(x, Flat(net.v)) = 2
        /\ Len(step.tcon) = 2 => Len(step.pos1) = Len(step.pos2)

(* C5: on every input that passes validation permute_final finds every     *)
(* label of forder in the final leg list, calls permute with a permutation *)
(* of the final tensor's axes, and axis k of the returned tensor is the    *)
(* axis labelled forder[k].  Stated for the inputs that follow the data    *)
(* model.                                                                  *)
C5_PermuteFinal ==
    WellFormed(inp) =>
        /\ (pc = "loop" /\ Len(order) = 0) =>
              /\ Range(forder) \subseteq Range(v[1])
              /\ permute_ok(L[1], permute_perm(v[1], forder))
        /\ pc = "done" =>
              /\ Len(result.axes) = Len(forder)
              /\ \A k \in DOMAIN forder :
                    /\ IsInputAxis(result.axes[k].org)
                    /\ inp.v[result.axes[k].org[1]][result.axes[k].org[2]] = forder[k]

(* The malformed-input classes of the validator that the network is in,    *)
(* each named by the error that corresponds to it.  The sizes of the two   *)
(* ends of a label are looked at only when every leg has an axis.          *)
Fits == Len(L) = Len(v) /\ \A i \in DOMAIN v : Len(v[i]) = Rank(L[i])

Incompatible(x) ==
    \E a, b \in Range(VPairs(v)) :
        /\ v[a[1]][a[2]] = x /\ v[b[1]][b[2]] = x
        /\ L[a[1]].axes[a[2]].size # L[b[1]].axes[b[2]].size

Malformed ==
    (IF Len(L) # Len(v) THEN {"ValueError: number of tensors"} ELSE {})
    \cup (IF Len(L) = Len(v) /\ ~Fits THEN {"ValueError: number of indices"} ELSE {})
    \cup (IF \E k \in DOMAIN order : Count(order[k], Flat(v)) # 2
          THEN {"ValueError: not featured exactly twice"} ELSE {})
    \cup (IF Fits /\ \E k \in DOMAIN order : Incompatible(order[k])
          THEN {"ValueError: not compatible"} ELSE {})
    \cup (IF \E k \in DOMAIN forder : Count(forder[k], Flat(v)) # 1
          THEN {"ValueError: not featured exactly once"} ELSE {})

(* C2: when the network is in a malformed-input class of the validator,    *)
(* ncon raises the error of a class it is in, and no backend operation has *)
(* been invoked before the error.                                          *)
C2_ValidatorRaisesCorresponding ==
    (pc \in {"connect", "error"} /\ net = NoNet /\ err \notin ConfigErrors /\ Malformed # {}) =>
        /\ pc = "error"
        /\ err \in Malformed
        /\ calls = 0

(* C6: for a fixed network that follows the data model and a fixed forder, *)
(* a second call with the contracted indices in another order ends as the  *)
(* first did: the same tensors merged, the same axis pairs summed, the     *)
(* same axes returned in the same places.                                  *)
C6_OrderIndependent ==
    (run = 2 /\ pc \in {"done", "error"} /\ WellFormed(inp)) =>
        out1 = [pc |-> pc, result |-> result]

-----------------------------------------------------------------------------
(* C3: after connect_graph and after every iteration of the contraction    *)
(* loop there are as many leg lists as tensors, and every leg list is as   *)
(* long as the rank of its tensor.                                         *)
C3_LegListsMatchRanks ==
    pc = "loop" =>
        /\ Len(L) = Len(v)
        /\ \A i \in DOMAIN v : Len(v[i]) = Rank(L[i])

C3_Witness ==
    /\ pc = "loop"
    /\ iters >= 2
    /\ Len(links) >= 2
    /\ Len(step.tcon) = 2
    /\ Len(v) = 1
    /\ Len(v[1]) >= 1

(* C7: an omitted order is the distinct positive labels of v in ascending  *)
(* order, an omitted forder the distinct negative labels in descending     *)
(* order -1, -2, ...; when either is omitted and some label is not an      *)
(* integer ncon fails with a configuration error before validation and     *)
(* before any backend operation.                                           *)
Ascending(s) == \A a, b \in DOMAIN s : a < b => s[a] < s[b]

Descending(s) == \A a, b \in DOMAIN s : a < b => s[a] > s[b]

C7_Defaults ==
    /\ (pc = "check" /\ ~inp.hasOrder) =>
          /\ Ascending(order)
          /\ Range(order) = {x \in Range(Flat(inp.v)) : x > 0}
    /\ (pc = "check" /\ ~inp.hasForder) =>
          /\ Descending(forder)
          /\ Range(forder) = {x \in Range(Flat(inp.v)) : x < 0}
    /\ (pc # "start" /\ (~inp.hasOrder \/ ~inp.hasForder)
           /\ \E x \in Range(Flat(inp.v)) : ~IsInt(x)) =>
          /\ pc = "error"
          /\ err \in ConfigErrors
          /\ calls = 0
          /\ net = NoNet

C7_Witness ==
    /\ pc = "check"
    /\ ~inp.hasOrder
    /\ ~inp.hasForder
    /\ Len(order) = 2
    /\ Len(forder) = 2

-----------------------------------------------------------------------------
(* C4: connect_graph on a network of k connected components leaves the     *)
(* tensor graph connected, appends exactly k-1 synthetic labels to the end *)
(* of order and leaves the earlier entries as they were, appends every     *)
(* synthetic label as the last label of exactly two leg lists whose        *)
(* tensors each gain one trailing axis of size 1, and changes nothing of   *)
(* L, v and order when k = 1.                                              *)
Gained(i) == Suffix(v'[i], Len(v[i]))

ConnectGraphPost ==
    LET k == NumComponents(v)
        n == Len(order)
        fresh == Suffix(order', n)
    IN /\ NumComponents(v') = 1
       /\ Len(order') = n + k - 1
       /\ SubSeq(order', 1, n) = order
       /\ Len(L') = Len(L) /\ Len(v') = Len(v)
       /\ \A i \in DOMAIN v :
             /\ SubSeq(v'[i], 1, Len(v[i])) = v[i]
             /\ SubSeq(L'[i].axes, 1, Rank(L[i])) = L[i].axes
             /\ Rank(L'[i]) - Rank(L[i]) = Len(Gained(i))
             /\ \A j \in (Rank(L[i]) + 1)..Rank(L'[i]) : L'[i].axes[j].size = 1
             /\ IsSubseq(Gained(i), fresh)
       /\ \A m \in DOMAIN fresh :
             Cardinality({i \in DOMAIN v : fresh[m] \in Range(Gained(i))}) = 2
       /\ k = 1 => (L' = L /\ v' = v /\ order' = order)

C4_ConnectGraph == [][pc = "connect" => ConnectGraphPost]_vars

C4_Witness ==
    /\ pc = "loop"
    /\ iters = 0
    /\ Len(links) = 3
    /\ Len(net.order) >= 3
    /\ net.order[1] \notin Synthetic

(* C8: every iteration of the contraction loop that does not raise removes *)
(* every label of icon from order, icon holding order[0]; order gets       *)
(* strictly shorter, its remaining entries keep their relative order, and  *)
(* the loop has run at most as many iterations as order was long after     *)
(* connect_graph.                                                          *)
Iterated == pc = "loop" /\ pc' = "loop" /\ iters' = iters + 1

C8_OrderShrinks ==
    [][/\ Iterated =>
            /\ order[1] \in Range(step'.icon)
            /\ Range(order') = Range(order) \ Range(step'.icon)
            /\ Len(order') < Len(order)
            /\ IsSubseq(order', order)
       /\ iters' # iters => iters' <= Len(net.order)]_vars

C8_Witness ==
    /\ pc = "loop"
    /\ iters = 1
    /\ Len(step.icon) = 2
    /\ Len(order) = 1
    /\ Len(net.order) = 3

(* C9: in every contraction step the leg list appended for the new tensor  *)
(* is the leg list of the lower-positioned participant followed by that of *)
(* the other (or the one leg list of a self-trace) without the labels of   *)
(* icon, the surviving labels in their relative order, and for every k the *)
(* label at position k is the label of the original axis that the backend  *)
(* places at axis k of the new tensor.                                     *)
C9_NewLegList ==
    [][Iterated =>
          LET t == step'.tcon
              joined == IF Len(t) = 2 THEN v[t[1]] \o v[t[2]] ELSE v[t[1]]
              newv == v'[Len(v')]
              new_A == L'[Len(L')]
          IN /\ Len(t) = 2 => t[1] < t[2]
             /\ newv = SelectSeq(joined, LAMBDA x : x \notin Range(step'.icon))
             /\ Len(newv) = Rank(new_A)
             /\ \A k \in DOMAIN newv : LabelOf(new_A.axes[k].org) = newv[k]]_vars

C9_Witness ==
    /\ pc = "loop"
    /\ iters >= 1
    /\ Len(step.tcon) = 2
    /\ \E a, b \in DOMAIN L[Len(L)].axes :
          /\ a < b
          /\ L[Len(L)].axes[a].org[1] = step.tcon[1]
          /\ L[Len(L)].axes[b].org[1] = step.tcon[2]
          /\ LabelOf(L[Len(L)].axes[a].org) # LabelOf(L[Len(L)].axes[b].org)

====
